---- MODULE Spec2Model ----
(***************************************************************************)
(* Model of note_pad/src/main.rs: an axum service over one PostgreSQL      *)
(* table `notes`, reached through an sqlx pool of five connections.        *)
(*                                                                         *)
(* Every note handler runs one SQL statement.  A statement is modelled in  *)
(* the steps the handler's `.fetch_*(&state.db).await` goes through:       *)
(*   Acquire  - the pool hands out a connection (or the wait times out)    *)
(*              and the backend starts the statement's transaction; NOW()  *)
(*              is the transaction's start time from here on,              *)
(*   <handler> - the statement takes effect atomically on the table, the   *)
(*              connection goes back to the pool and the handler maps the  *)
(*              result to its HTTP response.                               *)
(* Requests of different slots interleave freely between these steps.      *)
(***************************************************************************)
EXTENDS Integers, Sequences, FiniteSets, TLC

\* ------------------------------------------------------------------ bounds
\* Number of requests that can be in flight at once in Spec and SpecList.
MaxSlots == 2
\* Total number of requests routed in one behaviour of Spec and SpecList.
MaxOps == 2
\* Notes in the table at the start of SpecList beyond the default page size.
ListExtra == 1

\* ------------------------------------------------------- program constants
\* PgPoolOptions::new().max_connections(5)
max_connections == 5
\* Requests in SpecPool: one more than the pool can serve at once, all but
\* two of them in flight at its start.
PoolSlots == max_connections + 1
InFlightAtStart == max_connections - 1
\* params.get("limit").unwrap_or(&10)
DefaultLimit == 10
\* params.get("offset").unwrap_or(&0)
DefaultOffset == 0

\* StatusCode values used by the handlers and the extractors
OK == 200
NO_CONTENT == 204
BAD_REQUEST == 400
NOT_FOUND == 404
INTERNAL_SERVER_ERROR == 500

\* ------------------------------------------------------------ input values
\* Strings a payload can carry (the empty string included).
Strs == {"", "a"}
\* Option<String>: <<>> is None, <<s>> is Some(s)
None == <<>>
Some(s) == <<s>>
\* Fields an update payload can carry: absent, or a new text.
OptStrs == {None, Some("b")}

\* A query parameter as it stands in the URL: absent, a text that parses as
\* an i32 (Num), or any other text (Junk: letters, a number out of i32's range).
Absent == [kind |-> "absent", v |-> 0]
Junk == [kind |-> "junk", v |-> 0]
Num(n) == [kind |-> "num", v |-> n]
RawLimits == {Absent, Junk, Num(-1), Num(1)}
RawOffsets == {Absent, Junk, Num(1)}

\* The nil UUID: a syntactically valid id the backend never generates.
NilId == 0

VARIABLES
    notes,      \* the rows of table notes
    nextId,     \* the backend's id generator: ids below it have been issued
    clock,      \* the backend's clock
    inUse,      \* connections of the pool that are checked out
    req,        \* per slot: the request being served
    resp,       \* the response sent last, with the request it answers
    left,       \* requests still to be routed
    deleted     \* ids whose DELETE affected a row (history)

vars == <<notes, nextId, clock, inUse, req, resp, left, deleted>>

Slots == DOMAIN req

\* ------------------------------------------------------------------- Note
Note(id, title, content, created_at, updated_at) ==
    [id |-> id, title |-> title, content |-> content,
     created_at |-> created_at, updated_at |-> updated_at]

\* A slot that serves no request.
Idle ==
    [op |-> "none", pc |-> "idle", id |-> NilId, title |-> None, content |-> None,
     limit |-> Absent, offset |-> Absent, now |-> 0]

\* No response sent yet.
NoResponse ==
    [op |-> "none", id |-> NilId, title |-> None, content |-> None,
     limit |-> Absent, offset |-> Absent,
     status |-> 0, error |-> "", body |-> <<>>]

\* ------------------------------------------------------------ the backend
\* Column default of notes.id: a generated UUID, never generated before.
DefaultId == nextId

\* Ids generated so far.
Issued == 1 .. (nextId - 1)

\* NOW(): the start time of the statement's transaction, whenever within the
\* statement it is evaluated.
NOW(r) == req[r].now

\* Column default of notes.created_at and notes.updated_at.
DefaultTimestamp(r) == NOW(r)

\* COALESCE($n, column) with a NULL that stands for every absent field.
COALESCE_null(v, column) == IF v = None THEN "" ELSE v[1]

\* COALESCE($n, column): the bound value unless it is NULL.
COALESCE(v, column) == IF v = None THEN column ELSE v[1]

\* WHERE id = $1
WhereId(id) == {n \in notes : n.id = id}

\* The binds of the INSERT in the other order.
InsertRow_swapped(r, title, content) ==
    Note(DefaultId, content, title, DefaultTimestamp(r), DefaultTimestamp(r))

\* INSERT INTO notes (title, content) VALUES ($1, $2) RETURNING ...
\* The row that is inserted; id and both timestamps come from column defaults.
InsertRow(r, title, content) ==
    Note(DefaultId, title, content, DefaultTimestamp(r), DefaultTimestamp(r))

\* UPDATE notes SET title = COALESCE($1, title), content = COALESCE($2, content),
\*   updated_at = NOW() ... : the new version of row `old`.
UpdateRow(r, old, title, content) ==
    [old EXCEPT !.title = COALESCE(title, old.title),
                !.content = COALESCE(content, old.content),
                !.updated_at = NOW(r)]

\* An upsert in place of the UPDATE: a missing row is written too.
Updated_upsert(r, old) ==
    IF old = {}
    THEN {Note(req[r].id, COALESCE(req[r].title, ""), COALESCE(req[r].content, ""),
               NOW(r), NOW(r))}
    ELSE {UpdateRow(r, n, req[r].title, req[r].content) : n \in old}

\* UPDATE ... WHERE id = $3 RETURNING ...: the new versions of the rows `old`
\* that match, which are the rows returned.
Updated(r, old) == {UpdateRow(r, n, req[r].title, req[r].content) : n \in old}

\* An UPDATE that leaves the old version of the row in the table.
UpdateTable_keep(old, new) == notes \cup new

\* The table after the UPDATE: the new versions replace the old ones.
UpdateTable(old, new) == (notes \ old) \cup new

\* A DELETE without its WHERE clause.
DeleteRows_all(id) == IF WhereId(id) = {} THEN notes ELSE {}

\* DELETE FROM notes WHERE id = $1: the table that is left.
DeleteRows(id) == notes \ WhereId(id)

\* The latest created_at among rows.
MaxCreatedAt(rows) == CHOOSE t \in {n.created_at : n \in rows} :
                          \A n \in rows : n.created_at <= t

\* ORDER BY created_at DESC: every order of the rows the backend may produce
\* (rows with equal created_at come in any order).
RECURSIVE OrderByCreatedAtDesc(_)
OrderByCreatedAtDesc(rows) ==
    IF rows = {} THEN {<<>>}
    ELSE UNION {{<<h>> \o t : t \in OrderByCreatedAtDesc(rows \ {h})} :
                   h \in {n \in rows : n.created_at = MaxCreatedAt(rows)}}

Min(a, b) == IF a < b THEN a ELSE b

\* LIMIT without its OFFSET.
LimitOffset_nooffset(s, limit, offset) == SubSeq(s, 1, Min(Len(s), limit))

\* LIMIT $1 OFFSET $2 on an ordered result (both non-negative).
LimitOffset(s, limit, offset) ==
    SubSeq(s, offset + 1, Min(Len(s), offset + limit))

\* The backend refuses a negative LIMIT or OFFSET; fetch_all's error is
\* mapped to INTERNAL_SERVER_ERROR.
StmtFails(limit, offset) == limit < 0 \/ offset < 0

\* -------------------------------------------------------------- extractors
\* Query<HashMap<String, i32>>: a parameter's text parses as an i32 or the
\* whole query is rejected.
ParsesI32(raw) == raw.kind = "num"
QueryRejected(limit, offset) ==
    \/ limit.kind # "absent" /\ ~ParsesI32(limit)
    \/ offset.kind # "absent" /\ ~ParsesI32(offset)

\* unwrap_or_default() in place of unwrap_or(&default).
unwrap_or_zero(raw, default) == IF raw.kind = "absent" THEN 0 ELSE raw.v

\* params.get(key).unwrap_or(&default).clone()
unwrap_or(raw, default) == IF raw.kind = "absent" THEN default ELSE raw.v

\* Ids a client can put in a path: the ids some create has returned, and the
\* nil id.
KnownIds == {NilId} \cup Issued

\* ------------------------------------------------------------------- Init
\* The database the service connects to at startup: a fresh one, or one an
\* earlier run left behind (note 1 created and deleted, then note 2 created).
FreshDb ==
    /\ notes = {}
    /\ nextId = 1
    /\ clock = 0
    /\ deleted = {}

UsedDb ==
    /\ notes = {Note(2, "a", "a", 3, 3)}
    /\ nextId = 3
    /\ clock = 3
    /\ deleted = {1}

\* A database with more notes than one default page; the two latest were
\* created by overlapping requests and share their created_at.
BigSize == DefaultLimit + ListExtra
BigDb ==
    /\ notes = {Note(i, "a", "", Min(i, BigSize - 1), Min(i, BigSize - 1)) : i \in 1..BigSize}
    /\ nextId = BigSize + 1
    /\ clock = BigSize - 1
    /\ deleted = {}

Init ==
    /\ FreshDb \/ UsedDb
    /\ inUse = 0
    /\ req = [r \in 1..MaxSlots |-> Idle]
    /\ resp = NoResponse
    /\ left = MaxOps

InitList ==
    /\ BigDb
    /\ inUse = 0
    /\ req = [r \in 1..MaxSlots |-> Idle]
    /\ resp = NoResponse
    /\ left = MaxOps

\* The used database, with all connections but one held by get_note requests
\* whose statements started together and are running.
InitPool ==
    /\ notes = {Note(2, "a", "a", 3, 3)}
    /\ nextId = 3
    /\ clock = 4
    /\ deleted = {1}
    /\ inUse = InFlightAtStart
    /\ req = [r \in 1..PoolSlots |->
                IF r <= InFlightAtStart
                THEN [Idle EXCEPT !.op = "get_note", !.pc = "exec", !.id = 2, !.now = 4]
                ELSE Idle]
    /\ resp = NoResponse
    /\ left = PoolSlots - InFlightAtStart

\* Slots are interchangeable: a new request takes the lowest idle one.
Free(r) ==
    /\ left > 0
    /\ req[r].pc = "idle"
    /\ \A q \in Slots : q < r => req[q].pc # "idle"

\* The response to request q: its status, its error text or its body.
Respond(q, status, error, body) ==
    [op |-> q.op, id |-> q.id, title |-> q.title, content |-> q.content,
     limit |-> q.limit, offset |-> q.offset,
     status |-> status, error |-> error, body |-> body]

\* --------------------------------------------------------------- routing
\* .route("/api/v1/notes", get(get_notes)...) with its Query extractor
RouteGetNotes(r, limits, offsets) ==
    /\ Free(r)
    /\ \E limit \in limits, offset \in offsets :
         LET q == [Idle EXCEPT !.op = "get_notes", !.limit = limit, !.offset = offset] IN
         IF QueryRejected(limit, offset)
         THEN /\ resp' = Respond(q, BAD_REQUEST, "query rejected", <<>>)
              /\ req' = req
         ELSE /\ req' = [req EXCEPT ![r] = [q EXCEPT !.pc = "acquire"]]
              /\ resp' = resp
    /\ left' = left - 1
    /\ UNCHANGED <<notes, nextId, clock, inUse, deleted>>

\* .route("/api/v1/notes", ...post(create_note)) with its Json extractor
RouteCreateNote(r, strs) ==
    /\ Free(r)
    /\ \E title \in strs, content \in strs :
         req' = [req EXCEPT ![r] =
                    [Idle EXCEPT !.op = "create_note", !.pc = "acquire",
                                 !.title = Some(title), !.content = Some(content)]]
    /\ left' = left - 1
    /\ UNCHANGED <<notes, nextId, clock, inUse, resp, deleted>>

\* .route("/api/v1/notes/{id}", get(get_note)...) with its Path extractor
RouteGetNote(r, ids) ==
    /\ Free(r)
    /\ \E id \in ids :
         req' = [req EXCEPT ![r] = [Idle EXCEPT !.op = "get_note", !.pc = "acquire", !.id = id]]
    /\ left' = left - 1
    /\ UNCHANGED <<notes, nextId, clock, inUse, resp, deleted>>

\* .route("/api/v1/notes/{id}", ...put(update_note)...) with Path and Json
RouteUpdateNote(r, ids, opts) ==
    /\ Free(r)
    /\ \E id \in ids, title \in opts, content \in opts :
         req' = [req EXCEPT ![r] =
                    [Idle EXCEPT !.op = "update_note", !.pc = "acquire", !.id = id,
                                 !.title = title, !.content = content]]
    /\ left' = left - 1
    /\ UNCHANGED <<notes, nextId, clock, inUse, resp, deleted>>

\* .route("/api/v1/notes/{id}", ...delete(delete_note)) with its Path extractor
RouteDeleteNote(r, ids) ==
    /\ Free(r)
    /\ \E id \in ids :
         req' = [req EXCEPT ![r] = [Idle EXCEPT !.op = "delete_note", !.pc = "acquire", !.id = id]]
    /\ left' = left - 1
    /\ UNCHANGED <<notes, nextId, clock, inUse, resp, deleted>>

\* ------------------------------------------------------------------- pool
\* Transactions that are running in the backend.
Running == {q \in Slots : req[q].pc = "exec"}

\* The start times a transaction starting now can get: a time later than
\* every time read so far, or the same time as a transaction that is still
\* running and read the clock last.
StartTimes == {clock + 1} \cup {req[q].now : q \in {x \in Running : req[x].now = clock}}

\* `.fetch_*(&state.db)`: the pool hands the handler one of its connections
\* and the statement goes to the backend, which starts its transaction: NOW()
\* is fixed here.
Acquire(r) ==
    /\ req[r].pc = "acquire"
    /\ inUse < max_connections
    /\ inUse' = inUse + 1
    /\ \E t \in StartTimes :
         /\ req' = [req EXCEPT ![r].pc = "exec", ![r].now = t]
         /\ clock' = t
    /\ UNCHANGED <<notes, nextId, resp, left, deleted>>

\* All connections stayed checked out for the pool's acquire timeout (the
\* PgPoolOptions default; main sets none): the statement fails with
\* PoolTimedOut, which every handler maps to INTERNAL_SERVER_ERROR.
AcquireTimeout(r) ==
    /\ req[r].pc = "acquire"
    /\ inUse = max_connections
    /\ resp' = Respond(req[r], INTERNAL_SERVER_ERROR, "PoolTimedOut", <<>>)
    /\ req' = [req EXCEPT ![r] = Idle]
    /\ UNCHANGED <<notes, nextId, clock, inUse, left, deleted>>

\* A statement that keeps its connection when it is over.
Done_leak(r) ==
    /\ req' = [req EXCEPT ![r] = Idle]
    /\ UNCHANGED <<inUse, clock, left>>

\* The statement is over: the connection returns to the pool and the slot is
\* free for another request.
Done(r) ==
    /\ req' = [req EXCEPT ![r] = Idle]
    /\ inUse' = inUse - 1
    /\ UNCHANGED <<clock, left>>

\* --------------------------------------------------------------- handlers
\* .ok_or((StatusCode::NOT_FOUND, "Note not found")) on a fetch_optional row,
\* then the row mapped to a Note
ok_or(q, rows) ==
    IF rows = {}
    THEN Respond(q, NOT_FOUND, "Note not found", <<>>)
    ELSE Respond(q, OK, "", <<CHOOSE n \in rows : TRUE>>)

\* delete_note without its rows_affected test.
rows_affected_unchecked(q, n) == Respond(q, NO_CONTENT, "", <<>>)

\* if result.rows_affected() == 0 { NOT_FOUND } else { NO_CONTENT }
rows_affected(q, n) ==
    IF n = 0
    THEN Respond(q, NOT_FOUND, "Note not found", <<>>)
    ELSE Respond(q, NO_CONTENT, "", <<>>)

get_notes(r) ==
    /\ req[r].pc = "exec" /\ req[r].op = "get_notes"
    /\ LET limit == unwrap_or(req[r].limit, DefaultLimit)
           offset == unwrap_or(req[r].offset, DefaultOffset)
       IN  IF StmtFails(limit, offset)
           THEN resp' = Respond(req[r], INTERNAL_SERVER_ERROR, "must not be negative", <<>>)
           ELSE \E rows \in OrderByCreatedAtDesc(notes) :
                   resp' = Respond(req[r], OK, "", LimitOffset(rows, limit, offset))
    /\ Done(r)
    /\ UNCHANGED <<notes, nextId, deleted>>

get_note(r) ==
    /\ req[r].pc = "exec" /\ req[r].op = "get_note"
    /\ resp' = ok_or(req[r], WhereId(req[r].id))
    /\ Done(r)
    /\ UNCHANGED <<notes, nextId, deleted>>

create_note(r) ==
    /\ req[r].pc = "exec" /\ req[r].op = "create_note"
    /\ LET row == InsertRow(r, req[r].title[1], req[r].content[1]) IN
         /\ notes' = notes \cup {row}
         /\ resp' = Respond(req[r], OK, "", <<row>>)
    /\ nextId' = nextId + 1
    /\ Done(r)
    /\ UNCHANGED deleted

update_note(r) ==
    /\ req[r].pc = "exec" /\ req[r].op = "update_note"
    /\ LET old == WhereId(req[r].id)
           new == Updated(r, old)
       IN  /\ notes' = UpdateTable(old, new)
           /\ resp' = ok_or(req[r], new)
    /\ Done(r)
    /\ UNCHANGED <<nextId, deleted>>

delete_note(r) ==
    /\ req[r].pc = "exec" /\ req[r].op = "delete_note"
    /\ notes' = DeleteRows(req[r].id)
    /\ resp' = rows_affected(req[r], Cardinality(notes) - Cardinality(notes'))
    /\ deleted' = IF notes' = notes THEN deleted ELSE deleted \cup {req[r].id}
    /\ Done(r)
    /\ UNCHANGED nextId

\* A handler's statement takes effect and the handler answers.
Handle(r) ==
    get_notes(r) \/ get_note(r) \/ create_note(r) \/ update_note(r) \/ delete_note(r)

\* ------------------------------------------------------------------- Next
Next ==
    \/ \E r \in Slots : RouteGetNotes(r, RawLimits, RawOffsets)
    \/ \E r \in Slots : RouteGetNote(r, KnownIds)
    \/ \E r \in Slots : RouteCreateNote(r, Strs)
    \/ \E r \in Slots : RouteUpdateNote(r, KnownIds, OptStrs)
    \/ \E r \in Slots : RouteDeleteNote(r, KnownIds)
    \/ \E r \in Slots : Acquire(r)
    \/ \E r \in Slots : get_notes(r)
    \/ \E r \in Slots : get_note(r)
    \/ \E r \in Slots : create_note(r)
    \/ \E r \in Slots : update_note(r)
    \/ \E r \in Slots : delete_note(r)

Spec == Init /\ [][Next]_vars

\* Listing a table that is larger than a page, while its latest note may be
\* deleted.
NextList ==
    \/ \E r \in Slots : RouteGetNotes(r, RawLimits, RawOffsets)
    \/ \E r \in Slots : RouteDeleteNote(r, {BigSize})
    \/ \E r \in Slots : Acquire(r)
    \/ \E r \in Slots : get_notes(r)
    \/ \E r \in Slots : delete_note(r)

SpecList == InitList /\ [][NextList]_vars

\* One request more than the pool has connections.  The runtime polls every
\* handler that can go on, the backend finishes every statement it started,
\* and the pool wakes a waiting handler or lets its timeout expire.
NextPool ==
    \/ \E r \in Slots : RouteGetNotes(r, {Absent}, {Absent})
    \/ \E r \in Slots : RouteGetNote(r, {2})
    \/ \E r \in Slots : RouteCreateNote(r, {"a"})
    \/ \E r \in Slots : RouteUpdateNote(r, {2}, {None})
    \/ \E r \in Slots : RouteDeleteNote(r, {2})
    \/ \E r \in Slots : Acquire(r)
    \/ \E r \in Slots : AcquireTimeout(r)
    \/ \E r \in Slots : get_notes(r)
    \/ \E r \in Slots : get_note(r)
    \/ \E r \in Slots : create_note(r)
    \/ \E r \in Slots : update_note(r)
    \/ \E r \in Slots : delete_note(r)

PoolFairness ==
    \A r \in 1..PoolSlots : WF_vars(Acquire(r) \/ AcquireTimeout(r) \/ Handle(r))

SpecPool == InitPool /\ [][NextPool]_vars /\ PoolFairness

\* =================================================================== claims
\* Slot r's statement takes effect in this step and handler `op` answers.
Completes(r, op) ==
    /\ req[r].pc = "exec"
    /\ req[r].op = op
    /\ req'[r].pc = "idle"

Max(a, b) == IF a > b THEN a ELSE b

\* ----------------------------------------------------------------------- C1
\* C1: a create adds exactly one row to the table; the returned Note is that
\* row, carries the payload's title and content, has created_at equal to
\* updated_at, and an id no earlier create was given (deleted notes included).
C1_CreateAddsOneFreshNote ==
    [][\A r \in Slots : Completes(r, "create_note") =>
          /\ notes \subseteq notes'
          /\ Cardinality(notes') = Cardinality(notes) + 1
          /\ resp'.status = 200
          /\ Len(resp'.body) = 1
          /\ LET n == resp'.body[1] IN
               /\ notes' \ notes = {n}
               /\ n.title = req[r].title[1]
               /\ n.content = req[r].content[1]
               /\ n.created_at = n.updated_at
               /\ n.id \notin Issued
               /\ n.id \notin deleted
               /\ \A m \in notes : m.id # n.id]_vars

\* A create has answered after note 2 was deleted, with an empty title and a
\* non-empty content.
C1_Witness ==
    /\ resp.op = "create_note"
    /\ resp.status = 200
    /\ 2 \in deleted
    /\ resp.body[1].title = ""
    /\ resp.body[1].content = "a"

\* ----------------------------------------------------------------------- C2
\* C2: get, update and delete of an id that has no row answer 404 and leave
\* the table as it was.
C2_MissingIdIsNotFound ==
    [][\A r \in Slots :
          /\ \/ Completes(r, "get_note")
             \/ Completes(r, "update_note")
             \/ Completes(r, "delete_note")
          /\ WhereId(req[r].id) = {}
          => /\ resp'.status = 404
             /\ resp'.body = <<>>
             /\ notes' = notes]_vars

\* A delete of an id without a row has answered while the table held a note.
C2_Witness ==
    /\ resp.op = "delete_note"
    /\ resp.status = 404
    /\ notes # {}

\* ----------------------------------------------------------------------- C3
\* C3: a successful update replaces exactly the fields its payload carries,
\* keeps the others, the id and created_at, leaves every other row alone and
\* returns the row as stored.
C3_UpdateReplacesPresentFields ==
    [][\A r \in Slots :
          Completes(r, "update_note") /\ WhereId(req[r].id) # {} =>
            \E old \in notes :
              /\ WhereId(req[r].id) = {old}
              /\ resp'.status = 200
              /\ Len(resp'.body) = 1
              /\ LET new == resp'.body[1] IN
                   /\ new \in notes'
                   /\ notes' \ {new} = notes \ {old}
                   /\ new.id = old.id
                   /\ new.created_at = old.created_at
                   /\ new.title = IF req[r].title = <<>> THEN old.title
                                  ELSE req[r].title[1]
                   /\ new.content = IF req[r].content = <<>> THEN old.content
                                    ELSE req[r].content[1]]_vars

\* An update that carried only a title has answered with the new title and
\* the old content, while another note was in the table.
C3_Witness ==
    /\ resp.op = "update_note"
    /\ resp.status = 200
    /\ resp.title = <<"b">>
    /\ resp.content = <<>>
    /\ resp.body[1].title = "b"
    /\ resp.body[1].content = "a"
    /\ Cardinality(notes) = 2

\* ----------------------------------------------------------------------- C4
\* C4: every successful update leaves the note's updated_at strictly greater
\* than it was before the update.
C4_UpdatedAtAdvances ==
    [][\A r \in Slots :
          Completes(r, "update_note") /\ WhereId(req[r].id) # {} =>
            \A old \in WhereId(req[r].id) :
              \A new \in {n \in notes' : n.id = old.id} :
                new.updated_at > old.updated_at]_vars

\* ----------------------------------------------------------------------- C5
\* C5: in every state of the table every row has created_at <= updated_at
\* and no two rows share an id.
C5_RowInvariant ==
    /\ \A n \in notes : n.created_at <= n.updated_at
    /\ \A n, m \in notes : n.id = m.id => n = m

\* The table holds two notes, one of them updated since its creation.
C5_Witness ==
    /\ Cardinality(notes) = 2
    /\ \E n \in notes : n.updated_at > n.created_at

\* ----------------------------------------------------------------------- C6
\* C6: the ids that have a row are the issued ids no delete has succeeded on;
\* get of such an id answers 200 with the stored row; the first delete of it
\* answers 204 and removes that row alone; every later get, update or delete
\* of the id answers 404.
C6_Exists == {n.id : n \in notes} = Issued \ deleted

C6_Step(r) ==
    /\ Completes(r, "get_note") /\ WhereId(req[r].id) # {} =>
          /\ resp'.status = 200
          /\ Len(resp'.body) = 1
          /\ WhereId(req[r].id) = {resp'.body[1]}
    /\ Completes(r, "delete_note") /\ WhereId(req[r].id) # {} =>
          /\ resp'.status = 204
          /\ req[r].id \notin deleted
          /\ Cardinality(notes') = Cardinality(notes) - 1
          /\ notes' = {n \in notes : n.id # req[r].id}
    /\ /\ \/ Completes(r, "get_note")
          \/ Completes(r, "update_note")
          \/ Completes(r, "delete_note")
       /\ req[r].id \in deleted
       => resp'.status = 404 /\ notes' = notes

C6_ExistsUntilDeleted ==
    /\ []C6_Exists
    /\ [][\A r \in Slots : C6_Step(r)]_vars

\* The second delete of note 2 has answered 404.
C6_Witness ==
    /\ resp.op = "delete_note"
    /\ resp.id = 2
    /\ resp.status = 404
    /\ 2 \in deleted
    /\ 2 \in Issued

\* ----------------------------------------------------------------------- C7
\* The limit and the offset a list request is served with.
C7_Limit(q) == IF q.limit = Absent THEN 10 ELSE q.limit.v
C7_Offset(q) == IF q.offset = Absent THEN 0 ELSE q.offset.v

\* `body` is the page (limit l, offset o, both >= 0) of table `rows` sorted by
\* created_at descending: its notes are rows of the table, each once, latest
\* first; o rows at least as late as them are skipped before it, no row later
\* than a row of the page is left after it, and it is as long as l allows.
C7_IsPage(body, rows, l, o) ==
    LET n == Cardinality(rows)
        B == {body[i] : i \in 1..Len(body)}
        rest == rows \ B
    IN  /\ B \subseteq rows
        /\ \A i, j \in 1..Len(body) :
               i < j => body[i] # body[j] /\ body[i].created_at >= body[j].created_at
        /\ Len(body) = Max(0, Min(l, n - o))
        /\ \E Pre \in SUBSET rest :
              /\ Cardinality(Pre) = Min(o, n)
              /\ \A p \in Pre : \A x \in rows \ Pre : p.created_at >= x.created_at
              /\ \A x \in rest \ Pre : \A b \in B : x.created_at <= b.created_at

C8_Rejected(q) == q.limit = Junk \/ q.offset = Junk
C8_Defaulted(q) == q.limit = Absent \/ q.offset = Absent

C8_AbsentDefaultsJunkRejected ==
    /\ [](\A r \in Slots : ~C8_Rejected(req[r]))
    /\ [](resp.op = "get_notes" /\ C8_Rejected(resp) => resp.status = 400 /\ resp.body = <<>>)
    /\ [][resp' # resp /\ C8_Rejected(resp') => UNCHANGED <<notes, inUse, req>>]_vars
    /\ [][\A r \in Slots : Completes(r, "get_notes") /\ C8_Defaulted(req[r]) =>
            LET l == IF req[r].limit = Absent THEN 10 ELSE req[r].limit.v
                o == IF req[r].offset = Absent THEN 0 ELSE req[r].offset.v
            IN  IF l >= 0 /\ o >= 0
                THEN resp'.status = 200 /\ C7_IsPage(resp'.body, notes, l, o)
                ELSE resp'.status = 500]_vars

\* A list without limit has answered with ten of the table's eleven notes.
C8_Witness ==
    /\ resp.op = "get_notes"
    /\ resp.limit = Absent
    /\ resp.status = 200
    /\ Cardinality(notes) = 11
    /\ Len(resp.body) = 10

\* C8, as stated: a list request whose limit or offset is absent or does not
\* parse is answered 200.
C8_AsStated ==
    resp.op = "get_notes" /\ (C8_Rejected(resp) \/ C8_Defaulted(resp)) => resp.status = 200

\* ----------------------------------------------------------------------- C9
\* Handlers that hold a connection.
C9_Holders == {r \in Slots : req[r].pc = "exec"}

C9_AtMostFive ==
    /\ inUse <= 5
    /\ inUse = Cardinality(C9_Holders)

\* A handler's statement ends with its connection released; a handler gives
\* up waiting only when all five connections are in use, and answers 500.
C9_Step(r) ==
    /\ req[r].pc = "exec" /\ req'[r].pc # "exec" =>
          req'[r].pc = "idle" /\ inUse' = inUse - 1
    /\ req[r].pc = "acquire" /\ req'[r].pc = "exec" =>
          inUse < 5 /\ inUse' = inUse + 1
    /\ req[r].pc = "acquire" /\ req'[r].pc = "idle" =>
          /\ inUse = 5
          /\ resp'.status = 500
          /\ UNCHANGED <<notes, inUse>>

\* C9, as amended: at most five connections are in use at any time; a handler
\* holds one connection while its one statement runs and none otherwise; a
\* request that finds all five in use waits until one is released or the
\* pool's acquire timeout expires, and then fails with 500; every request
\* eventually completes provided in-flight statements finish.
C9_PoolBoundedAndLive ==
    /\ []C9_AtMostFive
    /\ [][\A r \in Slots : C9_Step(r)]_vars
    /\ \A r \in 1..PoolSlots : (req[r].pc # "idle") ~> (req[r].pc = "idle")

\* A request waits while all five connections are in use.
C9_Witness ==
    /\ inUse = 5
    /\ \E r \in Slots : req[r].pc = "acquire"

\* C9, as stated: at most five connections are in use, and a request that
\* waits for a connection never fails: it goes on only by getting one.
C9_AsStated ==
    /\ []C9_AtMostFive
    /\ [][\A r \in Slots :
            req[r].pc = "acquire" /\ req'[r].pc # "acquire" => req'[r].pc = "exec"]_vars

\* ---------------------------------------------------------------------- C10
\* C10: an update keeps what the update of the same note that answered just
\* before it wrote, in the fields it does not carry itself, also when it
\* started before that update: after a title-only and a content-only update
\* the row holds both.  An update of an id whose row is gone answers 404 and
\* does not bring the row back; an update that answers 200 found the row.
C10_Step(r) ==
    /\ WhereId(req[r].id) = {} => resp'.status = 404 /\ notes' = notes
    /\ resp'.status = 200 => WhereId(req[r].id) # {}
    /\ req[r].id \in deleted => \A n \in notes' : n.id # req[r].id
    /\ /\ resp'.status = 200
       /\ resp.op = "update_note" /\ resp.status = 200 /\ resp.id = req[r].id
       => LET prev == resp.body[1]
              cur == resp'.body[1]
          IN  /\ {n \in notes' : n.id = req[r].id} = {cur}
              /\ cur.title = IF req[r].title = <<>> THEN prev.title ELSE req[r].title[1]
              /\ cur.content = IF req[r].content = <<>> THEN prev.content
                               ELSE req[r].content[1]

C10_NoLostUpdate ==
    [][\A r \in Slots : Completes(r, "update_note") => C10_Step(r)]_vars

\* A content-only update has answered after a title-only update of the same
\* note that started later: the row holds the new title and the new content.
C10_Witness ==
    /\ resp.op = "update_note"
    /\ resp.status = 200
    /\ resp.title = <<>>
    /\ resp.content = <<"b">>
    /\ resp.body[1].title = "b"
    /\ resp.body[1].content = "b"
    /\ resp.body[1].updated_at < clock
    /\ resp.body[1] \in notes

====
